---- MODULE Spec2Model ----
(***************************************************************************)
(* Credential providers of azure-aitoolsconnect:                           *)
(*   - DeviceCodeAuth  (src/src/auth/device_code.rs): OAuth2 device-code   *)
(*     flow: URL derivation, handshake, instruction display, polling loop. *)
(*   - ManualTokenAuth (src/src/auth/manual_token.rs): validation and      *)
(*     wrapping of a caller-supplied bearer token.                         *)
(*                                                                         *)
(* Time is counted in whole seconds.  The HTTP transport, the URL parser   *)
(* and the authorization server are the environment: their answers are     *)
(* nondeterministic choices over the outcomes the code distinguishes.      *)
(***************************************************************************)
EXTENDS Integers, Sequences, FiniteSets, TLC

VARIABLES
    provider,     \* the DeviceCodeAuth value (tenant_id, client_id, scope, cloud), or NoProvider
    newArgs,      \* the arguments DeviceCodeAuth::new was called with
    newResult,    \* what DeviceCodeAuth::new returned: "none" | "Ok" | "Err"
    rejected,     \* the derived URLs the URL parser refuses (a fact of the environment)
    pc,           \* position of the get_credentials call
    calls,        \* get_credentials calls started so far
    now,          \* wall clock, seconds since the current get_credentials call began
    start,        \* poll_for_token: `start` (Instant taken at loop entry)
    interval,     \* poll_for_token: `interval` (details.interval())
    details,      \* the StandardDeviceAuthorizationResponse of this call's handshake
    issuedCodes,  \* server side: number of device codes issued so far
    handshakes,   \* device-authorization requests sent by the current call
    hsResp,       \* the answer to the current call's device-authorization request
    displays,     \* display_instructions invocations of the current call
    shown,        \* what display_instructions printed last
    sleeps,       \* sleeps completed by the current call
    attempts,     \* token-exchange requests sent by the current call
    usedCode,     \* device code carried by the last token-exchange request
    lastResp,     \* kind of the last token-exchange answer of the current call
    respAt,       \* wall-clock time the last token-exchange answer arrived
    nPending,     \* AuthorizationPending answers received by the current call
    nSlowDown,    \* SlowDown answers received by the current call
    nTerminal,    \* all other answers received by the current call
    issued,       \* server side: the token response issued to the current call
    result,       \* what get_credentials returned
    mtPc,         \* ManualTokenAuth: "start" | "built" | "failed"
    mtInput,      \* ManualTokenAuth: the string handed to new
    mtToken,      \* ManualTokenAuth: the stored token field
    mtResult,     \* ManualTokenAuth: what new returned
    mtCred,       \* ManualTokenAuth: what the last get_credentials returned
    mtGets,       \* ManualTokenAuth: get_credentials calls so far
    cc,           \* concurrent get_credentials calls: the locals of each call
    cclock,       \* concurrent calls: the wall clock they share, seconds
    cIssued       \* concurrent calls: server side, device codes issued so far

dcVars == <<provider, newArgs, newResult, rejected, pc, calls, now, start, interval, details,
            issuedCodes, handshakes, hsResp, displays, shown, sleeps, attempts,
            usedCode, lastResp, respAt, nPending, nSlowDown, nTerminal, issued, result>>
mtVars == <<mtPc, mtInput, mtToken, mtResult, mtCred, mtGets>>
ccVars == <<cc, cclock, cIssued>>
vars == <<dcVars, mtVars, ccVars>>

----------------------------------------------------------------------------
(* Bounds of the model *)

\* get_credentials calls made on one provider
MaxCalls == 2
\* a sleep lasts its duration, or MaxJitter seconds more (tokio: at least the duration)
MaxJitter == 1
Jitters == {0, MaxJitter}
\* a network round trip lasts 0 or MaxLatency seconds
MaxLatency == 40
Latencies == {0, MaxLatency}
\* polling intervals (seconds) the server may dictate; positive, so time advances
Intervals == {200, 450}
Tenants == {"contoso", "bad tenant"}
ClientIdOptions == {"None", "custom-client-id"}
Clouds == {"Global", "China"}
AccessTokens == {"tokA", "tokB"}

----------------------------------------------------------------------------
(* Values *)

NoProvider == [tenant_id |-> "", client_id |-> "", scope |-> "", cloud |-> ""]
NoDetails == [device_code |-> 0, user_code |-> "", verification_uri |-> "", interval |-> 0]
NoShown == [uri |-> "", code |-> ""]
NoToken == [access_token |-> "", refresh_token |-> ""]
NoResult == [tag |-> "None", variant |-> "", text |-> "", detail |-> ""]

AZURE_CLI_CLIENT_ID == "04b07795-8ddb-461a-bbee-02f9e1bf7b46"

\* Ok(Credentials::BearerToken(token))
OkBearer(token) == [tag |-> "Ok", variant |-> "BearerToken", text |-> token, detail |-> ""]
\* the message string of an error: format!("<text>{}", detail)
Message(r) == r.text \o r.detail

\* Err(AppError::DeviceCodeAuthFailed(format!("<text>{}", detail)))
AuthFailed(text, detail) ==
    [tag |-> "Err", variant |-> "DeviceCodeAuthFailed", text |-> text, detail |-> detail]

----------------------------------------------------------------------------
(* DeviceCodeAuth::new *)

\* A scope that ignores the cloud.
ScopeOf_global_only(cloud) == "https://cognitiveservices.azure.com/.default"

\* match cloud { Global => ..., China => ... }
ScopeOf(cloud) ==
    IF cloud = "Global" THEN "https://cognitiveservices.azure.com/.default"
    ELSE "https://cognitiveservices.azure.cn/.default"

\* client_id.unwrap_or_else(|| AZURE_CLI_CLIENT_ID.to_string())
ResolveClientId(opt) == IF opt = "None" THEN AZURE_CLI_CLIENT_ID ELSE opt

\* DeviceCodeAuth::new, lines 27-41: no URL is parsed here
DeviceCodeAuth_new(tenant_id, client_id, cloud) ==
    [tag |-> "Ok",
     value |-> [tenant_id |-> tenant_id, client_id |-> ResolveClientId(client_id),
                scope |-> ScopeOf(cloud), cloud |-> cloud]]

----------------------------------------------------------------------------
(* fetch_token: endpoint derivation *)

Suffixes == {"devicecode", "token", "authorize"}

\* Cloud::login_endpoint (crate::config)
LoginEndpoint(cloud) ==
    IF cloud = "Global" THEN "https://login.microsoftonline.com"
    ELSE "https://login.chinacloudapi.cn"

\* format!("{}/{}/oauth2/v2.0/<suffix>", login_endpoint, self.tenant_id)
DeriveUrl(cloud, tenant_id, suffix) ==
    <<LoginEndpoint(cloud), "/", tenant_id, "/oauth2/v2.0/", suffix>>

\* DeviceAuthorizationUrl::new / TokenUrl::new / AuthUrl::new
UrlNew(url) == IF url \in rejected THEN "Err" ELSE "Ok"

\* URL construction that lets a refused URL through.
BuildClient_unchecked(p) == NoResult

\* The three `?` of lines 48-64, in order; NoResult when the client is built.
BuildClient(p) ==
    IF UrlNew(DeriveUrl(p.cloud, p.tenant_id, "devicecode")) = "Err"
    THEN AuthFailed("Invalid device auth URL: ", "url parse error")
    ELSE IF UrlNew(DeriveUrl(p.cloud, p.tenant_id, "token")) = "Err"
    THEN AuthFailed("Invalid token URL: ", "url parse error")
    ELSE IF UrlNew(DeriveUrl(p.cloud, p.tenant_id, "authorize")) = "Err"
    THEN AuthFailed("Invalid auth URL: ", "url parse error")
    ELSE NoResult

----------------------------------------------------------------------------
(* The environment's answers *)

\* ways the device-authorization request fails (RequestTokenError of the handshake)
HandshakeFailures == {"network error", "malformed response", "error response"}

\* what a successful device-authorization response carries besides the device code
DeviceAuthResponses ==
    {[user_code |-> u, verification_uri |-> v, interval |-> i] :
        <<u, v>> \in {<<"ABCD", "https://microsoft.com/devicelogin">>,
                      <<"WXYZ", "https://aka.ms/devicelogin">>},
        i \in Intervals}

TokenResponses == {[access_token |-> t, refresh_token |-> "refresh"] : t \in AccessTokens}

\* answers to a token-exchange request, as the match of lines 139-185 tells them apart
Responses ==
    {[kind |-> "Success", token |-> t, detail |-> ""] : t \in TokenResponses}
    \cup {[kind |-> k, token |-> NoToken, detail |-> ""] :
            k \in {"AuthorizationPending", "SlowDown", "ExpiredToken", "AccessDenied"}}
    \cup {[kind |-> "OtherServerError", token |-> NoToken, detail |-> "invalid_grant"],
          [kind |-> "OtherServerError", token |-> NoToken,
           detail |-> "User declined authorization"],
          [kind |-> "RequestError", token |-> NoToken, detail |-> "connection reset"],
          [kind |-> "ParseError", token |-> NoToken, detail |-> "bad json"]}

KeepAliveKinds == {"AuthorizationPending", "SlowDown"}

----------------------------------------------------------------------------
(* poll_for_token                                                           *)
(* One call of exchange_device_access_token(details).request_async(..) is  *)
(* one token-exchange attempt; its outcome is one of the arms of the match *)
(* of lines 139-185.                                                       *)

\* Duration::from_secs(15 * 60)
Timeout == 15 * 60

\* A deadline test that already fires at exactly 15 minutes.
DeadlineExceeded_inclusive(elapsed) == elapsed >= Timeout

\* A deadline test that fires one interval late.
DeadlineExceeded_late(elapsed) == elapsed > Timeout + 200

\* start.elapsed() > timeout
DeadlineExceeded(elapsed) == elapsed > Timeout

TimeoutError == AuthFailed("Authentication timeout (15 minutes). Please try again.", "")

\* SlowDown arm without the extra sleep.
SlowDownExtraDelay_none(iv) == 0

\* An inter-poll sleep of half the interval.
PollDelay_halved(iv) == iv \div 2

\* line 129: sleep(interval).await
PollDelay(iv) == iv

\* SlowDown arm sleeping twice the interval.
SlowDownExtraDelay_doubled(iv) == 2 * iv

\* SlowDown arm: sleep(interval).await
SlowDownExtraDelay(iv) == iv

\* A match that keeps polling after Success.
Classify_success_continues(resp) ==
    CASE resp.kind \in {"Success", "AuthorizationPending"} ->
            [next |-> "loop", token |-> NoToken, err |-> NoResult]
      [] resp.kind = "SlowDown" ->
            [next |-> "slowsleep", token |-> NoToken, err |-> NoResult]
      [] OTHER ->
            [next |-> "done", token |-> NoToken,
             err |-> AuthFailed("Server error: ", resp.detail)]

\* A match that treats AuthorizationPending as any other server error.
Classify_pending_fatal(resp) ==
    CASE resp.kind = "Success" ->
            [next |-> "done", token |-> resp.token, err |-> NoResult]
      [] resp.kind = "SlowDown" ->
            [next |-> "slowsleep", token |-> NoToken, err |-> NoResult]
      [] OTHER ->
            [next |-> "done", token |-> NoToken,
             err |-> AuthFailed("Server error: ", resp.detail)]

\* A match that reports AccessDenied with the message of ExpiredToken.
Classify_denied_as_expired(resp) ==
    CASE resp.kind = "Success" ->
            [next |-> "done", token |-> resp.token, err |-> NoResult]
      [] resp.kind = "AuthorizationPending" ->
            [next |-> "loop", token |-> NoToken, err |-> NoResult]
      [] resp.kind = "SlowDown" ->
            [next |-> "slowsleep", token |-> NoToken, err |-> NoResult]
      [] resp.kind \in {"ExpiredToken", "AccessDenied"} ->
            [next |-> "done", token |-> NoToken,
             err |-> AuthFailed("Device code expired. Please try again.", "")]
      [] resp.kind = "OtherServerError" ->
            [next |-> "done", token |-> NoToken,
             err |-> AuthFailed("Server error: ", resp.detail)]
      [] resp.kind = "RequestError" ->
            [next |-> "done", token |-> NoToken,
             err |-> AuthFailed("Network error during token request: ", resp.detail)]
      [] OTHER ->
            [next |-> "done", token |-> NoToken,
             err |-> AuthFailed("Token request failed: ", resp.detail)]

\* A match that keeps polling after ExpiredToken.
Classify_expired_retried(resp) ==
    CASE resp.kind = "Success" ->
            [next |-> "done", token |-> resp.token, err |-> NoResult]
      [] resp.kind \in {"AuthorizationPending", "ExpiredToken"} ->
            [next |-> "loop", token |-> NoToken, err |-> NoResult]
      [] resp.kind = "SlowDown" ->
            [next |-> "slowsleep", token |-> NoToken, err |-> NoResult]
      [] OTHER ->
            [next |-> "done", token |-> NoToken,
             err |-> AuthFailed("User declined authorization", "")]

\* A match that retries after a transport failure.
Classify_network_retried(resp) ==
    CASE resp.kind = "Success" ->
            [next |-> "done", token |-> resp.token, err |-> NoResult]
      [] resp.kind \in {"AuthorizationPending", "RequestError"} ->
            [next |-> "loop", token |-> NoToken, err |-> NoResult]
      [] resp.kind = "SlowDown" ->
            [next |-> "slowsleep", token |-> NoToken, err |-> NoResult]
      [] OTHER ->
            [next |-> "done", token |-> NoToken,
             err |-> AuthFailed("Server error: ", resp.detail)]

\* The match of lines 139-185: where the loop goes next and what it returns.
Classify(resp) ==
    CASE resp.kind = "Success" ->
            [next |-> "done", token |-> resp.token, err |-> NoResult]
      [] resp.kind = "AuthorizationPending" ->
            [next |-> "loop", token |-> NoToken, err |-> NoResult]
      [] resp.kind = "SlowDown" ->
            [next |-> "slowsleep", token |-> NoToken, err |-> NoResult]
      [] resp.kind = "ExpiredToken" ->
            [next |-> "done", token |-> NoToken,
             err |-> AuthFailed("Device code expired. Please try again.", "")]
      [] resp.kind = "AccessDenied" ->
            [next |-> "done", token |-> NoToken,
             err |-> AuthFailed("User declined authorization", "")]
      [] resp.kind = "OtherServerError" ->
            [next |-> "done", token |-> NoToken,
             err |-> AuthFailed("Server error: ", resp.detail)]
      [] resp.kind = "RequestError" ->
            [next |-> "done", token |-> NoToken,
             err |-> AuthFailed("Network error during token request: ", resp.detail)]
      [] OTHER ->
            [next |-> "done", token |-> NoToken,
             err |-> AuthFailed("Token request failed: ", resp.detail)]

\* fetch_token line 93 and get_credentials line 194, applied to what the loop returned
Credential(h) == IF h.err = NoResult THEN OkBearer(h.token.access_token) ELSE h.err

----------------------------------------------------------------------------
(* Concurrent get_credentials calls: the values each call owns *)

\* the get_credentials calls that run concurrently
ConcCalls == {1, 2}

\* the locals of fetch_token and poll_for_token of a call that has not begun
IdleCall ==
    [pc |-> "idle", provider |-> NoProvider, details |-> NoDetails, interval |-> 0,
     start |-> 0, since |-> 0, inflight |-> 0, attempts |-> 0, answers |-> 0,
     usedCode |-> 0, last |-> "none", result |-> NoResult]

----------------------------------------------------------------------------
(* Actions of the device-code flow *)

Init ==
    /\ provider = NoProvider
    /\ newArgs = [tenant_id |-> "", client_id |-> "", cloud |-> ""]
    /\ newResult = "none"
    /\ rejected = {}
    /\ pc = "new"
    /\ calls = 0
    /\ now = 0
    /\ start = 0
    /\ interval = 0
    /\ details = NoDetails
    /\ issuedCodes = 0
    /\ handshakes = 0
    /\ hsResp = "none"
    /\ displays = 0
    /\ shown = NoShown
    /\ sleeps = 0
    /\ attempts = 0
    /\ usedCode = 0
    /\ lastResp = "none"
    /\ respAt = 0
    /\ nPending = 0
    /\ nSlowDown = 0
    /\ nTerminal = 0
    /\ issued = NoToken
    /\ result = NoResult
    /\ mtPc = "start"
    /\ mtInput = <<>>
    /\ mtToken = <<>>
    /\ mtResult = [tag |-> "None", variant |-> "", text |-> "", token |-> <<>>]
    /\ mtCred = [tag |-> "None", variant |-> "", token |-> <<>>]
    /\ mtGets = 0
    /\ cc = [i \in ConcCalls |-> IdleCall]
    /\ cclock = 0
    /\ cIssued = 0

\* DeviceCodeAuth::new(tenant_id, client_id, cloud) is called; `bad` is the set of
\* endpoints whose URL, derived from this tenant, the URL parser will refuse
New ==
    /\ pc = "new"
    /\ \E t \in Tenants, c \in ClientIdOptions, cl \in Clouds, bad \in SUBSET Suffixes :
         LET r == DeviceCodeAuth_new(t, c, cl) IN
         /\ newArgs' = [tenant_id |-> t, client_id |-> c, cloud |-> cl]
         /\ newResult' = r.tag
         /\ provider' = r.value
         /\ rejected' = {DeriveUrl(cl, t, s) : s \in bad}
         /\ pc' = IF r.tag = "Ok" THEN "idle" ELSE "unbuilt"
    /\ UNCHANGED <<calls, now, start, interval, details, issuedCodes, handshakes,
                   hsResp, displays, shown, sleeps, attempts, usedCode, lastResp, respAt,
                   nPending, nSlowDown, nTerminal, issued, result>>
    /\ UNCHANGED mtVars
    /\ UNCHANGED ccVars

\* A get_credentials that polls with the details an earlier call left behind.
GetCredentials_reusing ==
    /\ pc \in {"idle", "done"}
    /\ calls < MaxCalls
    /\ calls' = calls + 1
    /\ now' = 0
    /\ start' = 0
    /\ interval' = details.interval
    /\ details' = details
    /\ hsResp' = "none"
    /\ displays' = 0
    /\ shown' = NoShown
    /\ sleeps' = 0
    /\ attempts' = 0
    /\ usedCode' = 0
    /\ lastResp' = "none"
    /\ respAt' = 0
    /\ nPending' = 0
    /\ nSlowDown' = 0
    /\ nTerminal' = 0
    /\ issued' = NoToken
    /\ LET e == BuildClient(provider) IN
         IF e # NoResult
         THEN /\ pc' = "done"
              /\ result' = e
              /\ handshakes' = 0
         ELSE IF details # NoDetails
         THEN /\ pc' = "loop"
              /\ result' = NoResult
              /\ handshakes' = 0
         ELSE /\ pc' = "handshake"
              /\ result' = NoResult
              /\ handshakes' = 1
    /\ UNCHANGED <<provider, newArgs, newResult, rejected, issuedCodes>>
    /\ UNCHANGED mtVars
    /\ UNCHANGED ccVars

\* get_credentials -> fetch_token, lines 44-82: derive the URLs, build the client and
\* send the device-authorization request
GetCredentials ==
    /\ pc \in {"idle", "done"}
    /\ calls < MaxCalls
    /\ calls' = calls + 1
    /\ now' = 0
    /\ start' = 0
    /\ interval' = 0
    /\ details' = NoDetails
    /\ hsResp' = "none"
    /\ displays' = 0
    /\ shown' = NoShown
    /\ sleeps' = 0
    /\ attempts' = 0
    /\ usedCode' = 0
    /\ lastResp' = "none"
    /\ respAt' = 0
    /\ nPending' = 0
    /\ nSlowDown' = 0
    /\ nTerminal' = 0
    /\ issued' = NoToken
    /\ LET e == BuildClient(provider) IN
         IF e # NoResult
         THEN /\ pc' = "done"
              /\ result' = e
              /\ handshakes' = 0
         ELSE /\ pc' = "handshake"
              /\ result' = NoResult
              /\ handshakes' = 1
    /\ UNCHANGED <<provider, newArgs, newResult, rejected, issuedCodes>>
    /\ UNCHANGED mtVars
    /\ UNCHANGED ccVars

\* A failed device-authorization request that is sent again.
HandshakeFailed_retried ==
    /\ pc = "handshake"
    /\ handshakes < 2
    /\ \E lat \in Latencies, f \in HandshakeFailures :
         /\ now' = now + lat
         /\ hsResp' = f
    /\ handshakes' = handshakes + 1
    /\ UNCHANGED <<provider, newArgs, newResult, rejected, pc, calls, start, interval, details,
                   issuedCodes, displays, shown, sleeps, attempts, usedCode, lastResp,
                   respAt, nPending, nSlowDown, nTerminal, issued, result>>
    /\ UNCHANGED mtVars
    /\ UNCHANGED ccVars

\* lines 81-85: the device-authorization request fails; `?` returns the error
HandshakeFailed ==
    /\ pc = "handshake"
    /\ \E lat \in Latencies, f \in HandshakeFailures :
         /\ now' = now + lat
         /\ hsResp' = f
         /\ result' = AuthFailed("Device code request failed: ", f)
    /\ pc' = "done"
    /\ UNCHANGED <<provider, newArgs, newResult, rejected, calls, start, interval, details,
                   issuedCodes, handshakes, displays, shown, sleeps, attempts, usedCode,
                   lastResp, respAt, nPending, nSlowDown, nTerminal, issued>>
    /\ UNCHANGED mtVars
    /\ UNCHANGED ccVars

\* lines 75-85: the device-authorization response arrives; the server issues a fresh
\* device code
HandshakeOk ==
    /\ pc = "handshake"
    /\ \E lat \in Latencies, d \in DeviceAuthResponses :
         /\ now' = now + lat
         /\ details' = [device_code |-> issuedCodes + 1, user_code |-> d.user_code,
                        verification_uri |-> d.verification_uri, interval |-> d.interval]
    /\ hsResp' = "ok"
    /\ issuedCodes' = issuedCodes + 1
    /\ pc' = "display"
    /\ UNCHANGED <<provider, newArgs, newResult, rejected, calls, start, interval, handshakes,
                   displays, shown, sleeps, attempts, usedCode, lastResp, respAt,
                   nPending, nSlowDown, nTerminal, issued, result>>
    /\ UNCHANGED mtVars
    /\ UNCHANGED ccVars

\* Entering the loop without showing the instructions.
Display_skipped ==
    /\ pc = "display"
    /\ interval' = details.interval
    /\ start' = now
    /\ pc' = "loop"
    /\ UNCHANGED <<provider, newArgs, newResult, rejected, calls, now, details, issuedCodes,
                   handshakes, hsResp, displays, shown, sleeps, attempts, usedCode,
                   lastResp, respAt, nPending, nSlowDown, nTerminal, issued, result>>
    /\ UNCHANGED mtVars
    /\ UNCHANGED ccVars

\* line 88 and lines 97-110: display_instructions; then poll_for_token is entered,
\* lines 118-120
Display ==
    /\ pc = "display"
    /\ displays' = displays + 1
    /\ shown' = [uri |-> details.verification_uri, code |-> details.user_code]
    /\ interval' = details.interval
    /\ start' = now
    /\ pc' = "loop"
    /\ UNCHANGED <<provider, newArgs, newResult, rejected, calls, now, details, issuedCodes,
                   handshakes, hsResp, sleeps, attempts, usedCode, lastResp, respAt,
                   nPending, nSlowDown, nTerminal, issued, result>>
    /\ UNCHANGED mtVars
    /\ UNCHANGED ccVars

\* lines 122-129: the deadline test at the top of an iteration; past it the loop
\* returns the timeout error, otherwise the inter-poll sleep begins
LoopCheck ==
    /\ pc = "loop"
    /\ IF DeadlineExceeded(now - start)
       THEN /\ pc' = "done"
            /\ result' = TimeoutError
       ELSE /\ pc' = "sleep"
            /\ UNCHANGED result
    /\ UNCHANGED <<provider, newArgs, newResult, rejected, calls, now, start, interval, details,
                   issuedCodes, handshakes, hsResp, displays, shown, sleeps, attempts,
                   usedCode, lastResp, respAt, nPending, nSlowDown, nTerminal, issued>>
    /\ UNCHANGED mtVars
    /\ UNCHANGED ccVars

\* lines 129-138: sleep(interval) ends and the token-exchange request is sent
SleepDone ==
    /\ pc = "sleep"
    /\ \E j \in Jitters : now' = now + PollDelay(interval) + j
    /\ sleeps' = sleeps + 1
    /\ attempts' = attempts + 1
    /\ usedCode' = details.device_code
    /\ pc' = "exchange"
    /\ UNCHANGED <<provider, newArgs, newResult, rejected, calls, start, interval, details,
                   issuedCodes, handshakes, hsResp, displays, shown, lastResp, respAt,
                   nPending, nSlowDown, nTerminal, issued, result>>
    /\ UNCHANGED mtVars
    /\ UNCHANGED ccVars

\* lines 138-185: the answer to the token-exchange request arrives and is matched
ExchangeResponse ==
    /\ pc = "exchange"
    /\ \E lat \in Latencies, resp \in Responses :
         LET h == Classify(resp) IN
         /\ now' = now + lat
         /\ respAt' = now + lat
         /\ lastResp' = resp.kind
         /\ nPending' = nPending + (IF resp.kind = "AuthorizationPending" THEN 1 ELSE 0)
         /\ nSlowDown' = nSlowDown + (IF resp.kind = "SlowDown" THEN 1 ELSE 0)
         /\ nTerminal' = nTerminal + (IF resp.kind \in KeepAliveKinds THEN 0 ELSE 1)
         /\ issued' = IF resp.kind = "Success" THEN resp.token ELSE issued
         /\ pc' = h.next
         /\ result' = IF h.next = "done" THEN Credential(h) ELSE result
    /\ UNCHANGED <<provider, newArgs, newResult, rejected, calls, start, interval, details,
                   issuedCodes, handshakes, hsResp, displays, shown, sleeps, attempts,
                   usedCode>>
    /\ UNCHANGED mtVars
    /\ UNCHANGED ccVars

\* lines 150-154: the extra sleep of the SlowDown arm ends; continue
SlowDownSleepDone ==
    /\ pc = "slowsleep"
    /\ \E j \in Jitters : now' = now + SlowDownExtraDelay(interval) + j
    /\ sleeps' = sleeps + 1
    /\ pc' = "loop"
    /\ UNCHANGED <<provider, newArgs, newResult, rejected, calls, start, interval, details,
                   issuedCodes, handshakes, hsResp, displays, shown, attempts, usedCode,
                   lastResp, respAt, nPending, nSlowDown, nTerminal, issued, result>>
    /\ UNCHANGED mtVars
    /\ UNCHANGED ccVars

Next ==
    \/ New
    \/ GetCredentials
    \/ HandshakeFailed
    \/ HandshakeOk
    \/ Display
    \/ LoopCheck
    \/ SleepDone
    \/ ExchangeResponse
    \/ SlowDownSleepDone

Spec == Init /\ [][Next]_vars

\* The runtime resumes a task whose sleep has elapsed, and the claims about
\* termination assume every request is answered.
FairSpec ==
    /\ Spec
    /\ WF_vars(LoopCheck)
    /\ WF_vars(SleepDone)
    /\ WF_vars(ExchangeResponse)
    /\ WF_vars(SlowDownSleepDone)

----------------------------------------------------------------------------
(* ManualTokenAuth *)

\* longest token string tried, in characters
MaxTokenChars == 21

\* Characters: an ASCII letter, an ASCII space, a two-byte letter (U+00E9) and
\* a three-byte white-space character (U+3000).
Chars == {"x", " ", "U+00E9", "U+3000"}

\* bytes of the character's UTF-8 encoding
Utf8Len(c) == CASE c = "U+00E9" -> 2 [] c = "U+3000" -> 3 [] OTHER -> 1

\* char::is_whitespace
IsWhitespace(c) == c \in {" ", "U+3000"}

Repeat(c, n) == [i \in 1..n |-> c]

\* the strings tried: white space, ASCII letters, two-byte letters, white space
TokenOf(a, b, c, d, w) == Repeat(w, a) \o Repeat("x", b) \o Repeat("U+00E9", c) \o Repeat(w, d)

RECURSIVE TrimStart(_)
TrimStart(s) ==
    IF s # <<>> /\ IsWhitespace(Head(s)) THEN TrimStart(Tail(s)) ELSE s

RECURSIVE TrimEnd(_)
TrimEnd(s) ==
    IF s # <<>> /\ IsWhitespace(s[Len(s)]) THEN TrimEnd(SubSeq(s, 1, Len(s) - 1)) ELSE s

\* str::trim
Trim(s) == TrimEnd(TrimStart(s))

RECURSIVE ByteLen(_)
\* String::len: the length in bytes
ByteLen(s) == IF s = <<>> THEN 0 ELSE Utf8Len(Head(s)) + ByteLen(Tail(s))

\* the threshold of line 21
MinTokenLen == 20

\* ManualTokenAuth::new, lines 12-28
ManualTokenAuth_new(token) ==
    IF Trim(token) = <<>>
    THEN [tag |-> "Err", variant |-> "InvalidBearerToken", text |-> "Token cannot be empty",
          token |-> <<>>]
    ELSE IF ByteLen(token) < MinTokenLen
    THEN [tag |-> "Err", variant |-> "InvalidBearerToken",
          text |-> "Token appears to be too short", token |-> <<>>]
    ELSE [tag |-> "Ok", variant |-> "ManualTokenAuth", text |-> "", token |-> token]

NoManualResult == [tag |-> "None", variant |-> "", text |-> "", token |-> <<>>]

\* ManualTokenAuth::new(token) is called
ManualNew ==
    /\ mtPc = "start"
    /\ \E a \in 0..MaxTokenChars, d \in 0..2, b \in 0..MaxTokenChars, c \in 0..MaxTokenChars,
          w \in {" ", "U+3000"} :
         /\ a + b + c + d <= MaxTokenChars
         /\ LET r == ManualTokenAuth_new(TokenOf(a, b, c, d, w)) IN
              /\ mtInput' = TokenOf(a, b, c, d, w)
              /\ mtResult' = r
              /\ mtToken' = r.token
              /\ mtPc' = IF r.tag = "Ok" THEN "built" ELSE "failed"
    /\ UNCHANGED <<mtCred, mtGets>>
    /\ UNCHANGED dcVars
    /\ UNCHANGED ccVars

\* A get_credentials that hands out the trimmed token.
ManualGetCredentials_trimmed ==
    /\ mtPc = "built"
    /\ mtGets < MaxCalls
    /\ mtGets' = mtGets + 1
    /\ mtCred' = [tag |-> "Ok", variant |-> "BearerToken", token |-> Trim(mtToken)]
    /\ UNCHANGED <<mtPc, mtInput, mtToken, mtResult>>
    /\ UNCHANGED dcVars
    /\ UNCHANGED ccVars

\* ManualTokenAuth::get_credentials, lines 33-35
ManualGetCredentials ==
    /\ mtPc = "built"
    /\ mtGets < MaxCalls
    /\ mtGets' = mtGets + 1
    /\ mtCred' = [tag |-> "Ok", variant |-> "BearerToken", token |-> mtToken]
    /\ UNCHANGED <<mtPc, mtInput, mtToken, mtResult>>
    /\ UNCHANGED dcVars
    /\ UNCHANGED ccVars

NextManual == ManualNew \/ ManualGetCredentials

SpecManual == Init /\ [][NextManual]_vars

----------------------------------------------------------------------------
(* Properties of the polling loop *)

Polling == pc \in {"loop", "sleep", "exchange", "slowsleep"}

\* seconds since poll_for_token took `start`
Elapsed == now - start

\* C1: when the first N token exchanges are answered AuthorizationPending and the
\* next one Success, the call ends there, having made exactly N+1 token-exchange
\* attempts, and returns the access token issued by that last answer.
C1_PendingThenSuccess ==
    (nSlowDown = 0 /\ nTerminal = 1 /\ lastResp = "Success")
        => /\ pc = "done"
           /\ attempts = nPending + 1
           /\ result = OkBearer(issued.access_token)

C1_Witness ==
    /\ pc = "done"
    /\ lastResp = "Success"
    /\ nSlowDown = 0
    /\ nPending = 3
    /\ attempts = 4
    /\ result = OkBearer("tokB")

\* C2 as stated: once more than 15 minutes have elapsed since the loop started, no
\* token-exchange request is sent and the call returns nothing but the timeout error.
C2_NothingAfterDeadline ==
    /\ (pc = "exchange" => Elapsed <= Timeout)
    /\ (pc = "done" /\ hsResp = "ok" /\ Elapsed > Timeout => result = TimeoutError)

\* C2, amended: an iteration that begins more than 15 minutes after the loop started
\* ends the loop with the timeout error, whatever the server would answer, and sends
\* no token-exchange request.
C2_DeadlineAtIterationStart ==
    [][(pc = "loop" /\ Elapsed > Timeout)
          => (pc' = "done" /\ result' = TimeoutError /\ attempts' = attempts
                /\ sleeps' = sleeps)]_vars

C2_Witness ==
    /\ pc = "done"
    /\ result = TimeoutError
    /\ Elapsed > Timeout
    /\ lastResp = "AuthorizationPending"

\* C3: if every token exchange is answered AuthorizationPending or SlowDown, the loop
\* ends, and it ends with the timeout error.
C3_EventuallyTimesOut ==
    (pc = "loop") ~> (pc = "done" /\ (nTerminal = 0 => result = TimeoutError))

C3_Witness ==
    /\ pc = "done"
    /\ nTerminal = 0
    /\ nPending >= 1
    /\ nSlowDown >= 1
    /\ result = TimeoutError

\* C4: an ExpiredToken or AccessDenied answer ends the call at once, with the
\* matching AuthFailed error and without a further token-exchange attempt.
C4_ExpiredOrDeniedTerminal ==
    /\ lastResp = "ExpiredToken"
         => /\ pc = "done"
            /\ nTerminal = 1
            /\ attempts = nPending + nSlowDown + 1
            /\ result = AuthFailed("Device code expired. Please try again.", "")
    /\ lastResp = "AccessDenied"
         => /\ pc = "done"
            /\ nTerminal = 1
            /\ attempts = nPending + nSlowDown + 1
            /\ result = AuthFailed("User declined authorization", "")

C4_Witness ==
    /\ pc = "done"
    /\ lastResp = "ExpiredToken"
    /\ attempts = 3
    /\ nPending = 1
    /\ nSlowDown = 1

\* C5: only AuthorizationPending and SlowDown are followed by another attempt; every
\* other answer ends the call with that attempt as its last, and every such answer but
\* Success gives an AuthFailed error.
C5_OnlyPendingAndSlowDownContinue ==
    /\ (lastResp \notin KeepAliveKinds \cup {"none"})
         => /\ pc = "done"
            /\ nTerminal = 1
            /\ attempts = nPending + nSlowDown + 1
            /\ (lastResp # "Success"
                  => result.tag = "Err" /\ result.variant = "DeviceCodeAuthFailed")
            /\ (lastResp = "Success" => result.tag = "Ok")
    /\ (Polling /\ lastResp # "none") => lastResp \in KeepAliveKinds
    /\ (pc = "done" /\ lastResp \in KeepAliveKinds) => result = TimeoutError

C5_Witness ==
    /\ pc = "done"
    /\ lastResp = "RequestError"
    /\ attempts = 2
    /\ result = AuthFailed("Network error during token request: ", "connection reset")

\* C6: the token-exchange request that follows a SlowDown answer is sent at least
\* 2 x interval after that answer arrived.
C6_SlowDownDoublesWait ==
    (pc = "exchange" /\ lastResp = "SlowDown") => now - respAt >= 2 * interval

C6_Witness ==
    /\ pc = "exchange"
    /\ lastResp = "SlowDown"
    /\ now - respAt = 2 * interval

----------------------------------------------------------------------------
(* Properties of the handshake, the display and the construction *)

\* C7: a failed handshake ends the call with AuthFailed after exactly one
\* device-authorization request; nothing is displayed and no token exchange is tried.
C7_HandshakeFailureNotRetried ==
    hsResp \in HandshakeFailures
        => /\ pc = "done"
           /\ result = AuthFailed("Device code request failed: ", hsResp)
           /\ handshakes = 1
           /\ displays = 0
           /\ sleeps = 0
           /\ attempts = 0

C7_Witness ==
    /\ pc = "done"
    /\ hsResp = "malformed response"
    /\ calls = 2
    /\ handshakes = 1

\* C8: after a successful handshake the verification URI and the user code of that
\* handshake are displayed exactly once, before the first sleep and the first token
\* exchange, and the call then always goes on to poll.
C8_DisplayedOnceBeforePolling ==
    /\ displays <= 1
    /\ (hsResp # "ok" \/ pc = "display") => displays = 0
    /\ displays = 0 => (sleeps = 0 /\ attempts = 0)
    /\ (hsResp = "ok" /\ pc # "display")
         => /\ displays = 1
            /\ shown = [uri |-> details.verification_uri, code |-> details.user_code]
    /\ (hsResp = "ok" /\ pc = "done") => attempts >= 1

C8_Witness ==
    /\ pc = "sleep"
    /\ sleeps = 0
    /\ displays = 1
    /\ shown = [uri |-> "https://aka.ms/devicelogin", code |-> "WXYZ"]

\* the provider's derived URLs that the URL parser refuses
Malformed(p) == {DeriveUrl(p.cloud, p.tenant_id, s) : s \in Suffixes} \cap rejected

\* C9: new succeeds for every tenant_id, also one whose derived URLs are malformed;
\* each get_credentials call on such a provider fails with AuthFailed before any
\* handshake request, display or token exchange.
C9_UrlsValidatedLazily ==
    /\ pc # "new" => (newResult = "Ok" /\ provider.tenant_id \in Tenants)
    /\ (calls >= 1 /\ Malformed(provider) # {})
         => /\ pc = "done"
            /\ result.tag = "Err"
            /\ result.variant = "DeviceCodeAuthFailed"
            /\ result.text \in {"Invalid device auth URL: ", "Invalid token URL: ",
                                "Invalid auth URL: "}
            /\ handshakes = 0
            /\ displays = 0
            /\ attempts = 0

C9_Witness ==
    /\ newResult = "Ok"
    /\ provider.tenant_id = "bad tenant"
    /\ Malformed(provider) = {DeriveUrl(provider.cloud, "bad tenant", "token")}
    /\ calls = 2
    /\ result = AuthFailed("Invalid token URL: ", "url parse error")

----------------------------------------------------------------------------
(* Properties of ManualTokenAuth *)

AllWhitespace(s) == \A i \in 1..Len(s) : IsWhitespace(s[i])

\* C10: new fails with InvalidToken for the empty string, for every string of white
\* space only and for every string of fewer than 20 characters, and succeeds for
\* every other string.
C10_RejectsExactlyShortOrBlank ==
    mtPc # "start"
        => ((mtResult.tag = "Err" /\ mtResult.variant = "InvalidBearerToken")
              <=> (mtInput = <<>> \/ AllWhitespace(mtInput) \/ Len(mtInput) < MinTokenLen))


\* C11: for a token new accepted, every get_credentials call succeeds, returns a
\* bearer credential holding exactly the string given to new, untrimmed, and leaves
\* the stored token as it was.
C11_ReturnsStoredTokenUnmodified ==
    mtPc = "built"
        => /\ mtToken = mtInput
           /\ mtGets >= 1 => mtCred = [tag |-> "Ok", variant |-> "BearerToken",
                                       token |-> mtInput]

C11_Witness ==
    /\ mtPc = "built"
    /\ mtGets = 2
    /\ Head(mtInput) = " "
    /\ mtInput[Len(mtInput)] = " "
    /\ Trim(mtInput) # mtInput
    /\ mtCred.token = mtInput


----------------------------------------------------------------------------
(* Further properties of DeviceCodeAuth *)

\* C12: the provider new builds has the supplied client id, or the well-known default
\* when none is supplied, and a scope fixed by the cloud alone: the
\* cognitiveservices.azure.com scope for Global, the cognitiveservices.azure.cn scope
\* for China.
C12_ClientIdAndScope ==
    pc # "new"
        => /\ newResult = "Ok"
           /\ newArgs.client_id = "None"
                => provider.client_id = "04b07795-8ddb-461a-bbee-02f9e1bf7b46"
           /\ newArgs.client_id # "None" => provider.client_id = newArgs.client_id
           /\ newArgs.cloud = "Global"
                => provider.scope = "https://cognitiveservices.azure.com/.default"
           /\ newArgs.cloud = "China"
                => provider.scope = "https://cognitiveservices.azure.cn/.default"
           /\ provider.cloud = newArgs.cloud
           /\ provider.tenant_id = newArgs.tenant_id

C12_Witness ==
    /\ pc = "idle"
    /\ newArgs = [tenant_id |-> "bad tenant", client_id |-> "custom-client-id",
                  cloud |-> "China"]
    /\ provider.client_id = "custom-client-id"
    /\ provider.scope = "https://cognitiveservices.azure.cn/.default"


StartsWith(m, p) == Len(m) >= Len(p) /\ SubSeq(m, 1, Len(p)) = p

\* what a caller reads off the message of the error it got
CauseFromMessage(m) ==
    CASE m = "Authentication timeout (15 minutes). Please try again." -> "timeout"
      [] m = "User declined authorization" -> "denied"
      [] m = "Device code expired. Please try again." -> "expired"
      [] StartsWith(m, "Server error: ") -> "server"
      [] OTHER -> "other"

\* what ended the polling loop of the current call
EndedBy ==
    CASE lastResp \in KeepAliveKinds -> "timeout"
      [] lastResp = "AccessDenied" -> "denied"
      [] lastResp = "ExpiredToken" -> "expired"
      [] lastResp = "OtherServerError" -> "server"
      [] OTHER -> "other"

\* C13: the message of the error a device-code acquisition returns tells its cause:
\* timeout, user denial, expired device code and other server error each give a
\* message none of the others (nor any other failure of the loop) gives.
C13_MessageIdentifiesCause ==
    (pc = "done" /\ hsResp = "ok" /\ result.tag = "Err")
        => CauseFromMessage(Message(result)) = EndedBy

C13_Witness ==
    /\ pc = "done"
    /\ lastResp = "OtherServerError"
    /\ Message(result) = "Server error: User declined authorization"


\* how long a sleep of the handshake's interval may last
OneInterval == {details.interval + j : j \in Jitters}

\* C14: a SlowDown answer does not change the polling interval: every inter-poll
\* sleep, before and after any number of SlowDown answers, is a sleep of the interval
\* of the handshake response, and the extra sleep after a SlowDown is one such sleep.
C14_SlowDownKeepsInterval ==
    [][/\ Polling' => interval' = details'.interval
       /\ (pc = "sleep" /\ pc' = "exchange") => (now' - now) \in OneInterval
       /\ (pc = "slowsleep" /\ pc' = "loop") => (now' - now) \in OneInterval]_vars

C14_Witness ==
    /\ pc = "exchange"
    /\ nSlowDown = 2
    /\ lastResp = "SlowDown"
    /\ interval = 200
    /\ details.interval = 200
    /\ now - respAt = 400


\* C15: every token-exchange request is sent right after a sleep of one interval: the
\* first at least one interval after the loop started, each later one at least one
\* interval after the previous answer arrived, and after AuthorizationPending with no
\* delay but that one sleep.
C15_SleepBeforeEveryAttempt ==
    pc = "exchange"
        => /\ sleeps >= attempts
           /\ attempts = 1 => now - start >= interval
           /\ attempts > 1 => now - respAt >= interval
           /\ lastResp = "AuthorizationPending" => (now - respAt) \in OneInterval

C15_Witness ==
    /\ pc = "exchange"
    /\ attempts = 3
    /\ lastResp = "AuthorizationPending"
    /\ now - respAt = interval


\* C16: get_credentials never changes the provider's tenant_id, client_id, scope or
\* cloud, and every call that polls has run its own handshake and polls with the
\* device code that handshake was issued, the newest the server issued.
C16_StatelessAcrossCalls ==
    /\ [][pc # "new" => provider' = provider]_vars
    /\ [](Polling => (hsResp = "ok" /\ handshakes = 1
                        /\ details.device_code = issuedCodes))
    /\ [](attempts >= 1 => (hsResp = "ok" /\ handshakes = 1
                              /\ usedCode = details.device_code
                              /\ usedCode = issuedCodes))

C16_Witness ==
    /\ calls = 2
    /\ pc = "exchange"
    /\ issuedCodes = 2
    /\ usedCode = 2
    /\ provider.tenant_id = newArgs.tenant_id


\* C18: the timeout error comes only from the deadline test at the start of an
\* iteration, and only when more than 15 minutes have elapsed since the loop started;
\* an answer that ended the loop (Success or a terminal error) is never replaced by it.
C18_TimeoutOnlyFromDeadlineTest ==
    /\ [][(pc # "done" /\ pc' = "done" /\ result' = TimeoutError)
             => (pc = "loop" /\ Elapsed > Timeout /\ now' = now)]_vars
    /\ []((pc = "done" /\ result = TimeoutError)
             => (Elapsed > Timeout /\ lastResp \in KeepAliveKinds))
    /\ []((lastResp \notin KeepAliveKinds \cup {"none"}) => result # TimeoutError)

C18_Witness ==
    /\ pc = "done"
    /\ result = TimeoutError
    /\ Elapsed = Timeout + 1
    /\ lastResp = "SlowDown"

\* C19: a token-exchange request sent after a sleep of exactly one interval is sent
\* no later than 15 minutes plus one interval after the loop started, also after a
\* SlowDown answer, whatever the answers and their latencies were.
C19_AttemptWithinDeadlinePlusInterval ==
    /\ [](pc = "sleep" => Elapsed <= Timeout)
    /\ [][(pc = "sleep" /\ pc' = "exchange" /\ now' - now = interval)
             => (now' - start <= Timeout + interval)]_vars

C19_Witness ==
    /\ pc = "exchange"
    /\ lastResp = "SlowDown"
    /\ now - start = Timeout + interval


----------------------------------------------------------------------------
(* Concurrent get_credentials calls                                        *)
(* Each call runs fetch_token and poll_for_token as above on the values it *)
(* owns; the calls share the wall clock and the authorization server.  A   *)
(* wait that began at `since` ends no earlier than `since` plus its        *)
(* duration, and possibly later, when the other call has moved the clock;  *)
(* a call may also be held up between two of its steps for as long.        *)

\* the providers the concurrent calls are made on
ConcProviders ==
    {DeviceCodeAuth_new("contoso", "None", "Global").value,
     DeviceCodeAuth_new("contoso", "custom-client-id", "China").value}

\* what the environment may answer the concurrent calls: one polling interval, two
\* round-trip times, one representative of each way the loop goes on or ends
ConcIntervals == {450}
ConcLatencies == {0, 450}
ConcDeviceAuthResponses ==
    {d \in DeviceAuthResponses : d.interval \in ConcIntervals /\ d.user_code = "ABCD"}
ConcResponses ==
    {r \in Responses :
        /\ r.kind \in {"Success", "AuthorizationPending", "SlowDown", "AccessDenied",
                        "RequestError"}
        /\ r.token.access_token \in {"", "tokA"}}

Max(a, b) == IF a >= b THEN a ELSE b

\* Handshake details kept where every call reads them.
StoreDetails_shared(c, i, d) == [j \in DOMAIN c |-> [c[j] EXCEPT !.details = d]]

\* line 75: `let details` is a local of the call's own fetch_token
StoreDetails(c, i, d) == [c EXCEPT ![i].details = d]

\* get_credentials -> fetch_token, lines 44-82, for call i on provider p
CBegin(i) ==
    /\ cc[i].pc = "idle"
    /\ \E p \in ConcProviders :
         LET e == BuildClient(p) IN
         cc' = [cc EXCEPT ![i] =
                  IF e # NoResult
                  THEN [@ EXCEPT !.provider = p, !.pc = "done", !.result = e]
                  ELSE [@ EXCEPT !.provider = p, !.pc = "handshake", !.inflight = 1,
                                 !.since = cclock]]
    /\ UNCHANGED <<cclock, cIssued>>
    /\ UNCHANGED <<dcVars, mtVars>>

\* lines 81-85: call i's device-authorization request fails
CHandshakeFailed(i) ==
    /\ cc[i].pc = "handshake"
    /\ \E lat \in ConcLatencies, f \in {"network error"} :
         /\ cclock' = Max(cclock, cc[i].since + lat)
         /\ cc' = [cc EXCEPT ![i].pc = "done", ![i].inflight = 0,
                             ![i].result = AuthFailed("Device code request failed: ", f)]
    /\ UNCHANGED cIssued
    /\ UNCHANGED <<dcVars, mtVars>>

\* lines 75-85: call i's device-authorization response arrives
CHandshakeOk(i) ==
    /\ cc[i].pc = "handshake"
    /\ \E lat \in ConcLatencies, d \in ConcDeviceAuthResponses :
         /\ cclock' = Max(cclock, cc[i].since + lat)
         /\ cc' = StoreDetails([cc EXCEPT ![i].pc = "display", ![i].inflight = 0], i,
                               [device_code |-> cIssued + 1, user_code |-> d.user_code,
                                verification_uri |-> d.verification_uri,
                                interval |-> d.interval])
    /\ cIssued' = cIssued + 1
    /\ UNCHANGED <<dcVars, mtVars>>

\* line 88 and lines 118-120: call i displays its instructions and enters its loop
CDisplay(i) ==
    /\ cc[i].pc = "display"
    /\ cc' = [cc EXCEPT ![i].pc = "loop", ![i].interval = cc[i].details.interval,
                        ![i].start = cclock]
    /\ UNCHANGED <<cclock, cIssued>>
    /\ UNCHANGED <<dcVars, mtVars>>

\* lines 122-129: call i's deadline test
CLoopCheck(i) ==
    /\ cc[i].pc = "loop"
    /\ cc' = [cc EXCEPT ![i] =
                IF DeadlineExceeded(cclock - cc[i].start)
                THEN [@ EXCEPT !.pc = "done", !.result = TimeoutError]
                ELSE [@ EXCEPT !.pc = "sleep", !.since = cclock]]
    /\ UNCHANGED <<cclock, cIssued>>
    /\ UNCHANGED <<dcVars, mtVars>>

\* lines 129-138: call i's sleep ends and it sends its token-exchange request
CSleepDone(i) ==
    /\ cc[i].pc = "sleep"
    /\ LET t == Max(cclock, cc[i].since + PollDelay(cc[i].interval)) IN
         /\ cclock' = t
         /\ cc' = [cc EXCEPT ![i].pc = "exchange", ![i].inflight = 1, ![i].since = t,
                             ![i].attempts = @ + 1,
                             ![i].usedCode = cc[i].details.device_code]
    /\ UNCHANGED cIssued
    /\ UNCHANGED <<dcVars, mtVars>>

\* lines 138-185: the answer to call i's token-exchange request arrives
CExchangeResponse(i) ==
    /\ cc[i].pc = "exchange"
    /\ \E lat \in ConcLatencies, resp \in ConcResponses :
         LET h == Classify(resp)
             t == Max(cclock, cc[i].since + lat) IN
         /\ cclock' = t
         /\ cc' = [cc EXCEPT ![i].pc = h.next, ![i].inflight = 0, ![i].since = t,
                             ![i].answers = @ + 1, ![i].last = resp.kind,
                             ![i].result = IF h.next = "done" THEN Credential(h) ELSE @]
    /\ UNCHANGED cIssued
    /\ UNCHANGED <<dcVars, mtVars>>

\* lines 150-154: call i's extra sleep ends
CSlowDownSleepDone(i) ==
    /\ cc[i].pc = "slowsleep"
    /\ cclock' = Max(cclock, cc[i].since + SlowDownExtraDelay(cc[i].interval))
    /\ cc' = [cc EXCEPT ![i].pc = "loop"]
    /\ UNCHANGED cIssued
    /\ UNCHANGED <<dcVars, mtVars>>

NextConc ==
    \E i \in ConcCalls :
        \/ CBegin(i)
        \/ CHandshakeFailed(i)
        \/ CHandshakeOk(i)
        \/ CDisplay(i)
        \/ CLoopCheck(i)
        \/ CSleepDone(i)
        \/ CExchangeResponse(i)
        \/ CSlowDownSleepDone(i)

SpecConc == Init /\ [][NextConc]_vars


\* the answer of the given kind among those the concurrent calls may get
ConcAnswer(kind) == CHOOSE r \in ConcResponses : r.kind = kind

\* C17: concurrent get_credentials calls, on one provider or on two, share no mutable
\* state: a step of one call changes nothing the other owns; each call has at most
\* one request in flight, polls with the device code of its own handshake, counts its
\* own answers, measures the deadline from its own loop start and returns what its
\* own last answer (or its own timeout) dictates.
C17_ConcurrentCallsShareNothing ==
    /\ [][\A i \in ConcCalls :
            cc'[i] # cc[i] => \A j \in ConcCalls \ {i} : cc'[j] = cc[j]]_vars
    /\ [](\A i \in ConcCalls :
            /\ cc[i].inflight = (IF cc[i].pc \in {"handshake", "exchange"} THEN 1 ELSE 0)
            /\ cc[i].attempts = cc[i].answers + (IF cc[i].pc = "exchange" THEN 1 ELSE 0)
            /\ cc[i].attempts >= 1 => cc[i].usedCode = cc[i].details.device_code
            /\ (cc[i].pc = "done" /\ cc[i].result = TimeoutError)
                 => (cclock - cc[i].start > Timeout
                       /\ cc[i].last \in KeepAliveKinds \cup {"none"})
            /\ (cc[i].pc = "done" /\ cc[i].last \notin KeepAliveKinds \cup {"none"})
                 => cc[i].result = Credential(Classify(ConcAnswer(cc[i].last))))
    /\ [](\A i \in ConcCalls : \A j \in ConcCalls \ {i} :
            (cc[i].details # NoDetails /\ cc[j].details # NoDetails)
                => cc[i].details.device_code # cc[j].details.device_code)

C17_Witness ==
    /\ cc[1].pc = "exchange"
    /\ cc[2].pc = "exchange"
    /\ cc[1].provider = cc[2].provider
    /\ cc[1].start # cc[2].start
    /\ cc[1].attempts = 2
    /\ cc[2].attempts = 1
    /\ cc[1].usedCode = 2
    /\ cc[2].usedCode = 1

====
